---- MODULE Spec2Model ----
(***************************************************************************)
(* Model of the BIP37 Bloom filter of bitpay/bloom-filter                  *)
(* (src/lib/filter.js): construction (create, fromBuffer, fromObject),     *)
(* insert, contains, clear, isRelevantAndUpdate and toBuffer.              *)
(*                                                                         *)
(* Representation notes.                                                   *)
(*  - TLC integers are 32-bit signed, so an unsigned 32-bit word is the    *)
(*    pair <<hi, lo>> of its 16-bit halves (value hi * 65536 + lo).        *)
(*  - vData, a JavaScript array of bytes, is the record                    *)
(*    [length, bytes]: `bytes` maps the (0-based) indices of the non-zero  *)
(*    bytes to their values, every other index below `length` holds 0.     *)
(*    This is the array itself, stored sparsely, so a 36001-byte array of  *)
(*    zeros is one small value.                                            *)
(*  - a byte string (Buffer) is a sequence of numbers in 0..255.           *)
(***************************************************************************)
EXTENDS Integers, Sequences, FiniteSets, TLC

(***************************************************************************)
(* 32-bit unsigned arithmetic on <<hi, lo>> words.                         *)
(***************************************************************************)
RECURSIVE Pow2(_)
Pow2(n) ==
  IF n = 0 THEN 1 ELSE 2 * Pow2(n - 1)

RECURSIVE BitXor(_, _, _)
BitXor(a, b, n) ==
  IF n = 0 THEN 0
  ELSE ((a + b) % 2) + 2 * BitXor(a \div 2, b \div 2, n - 1)

RECURSIVE BitAnd(_, _, _)
BitAnd(a, b, n) ==
  IF n = 0 THEN 0
  ELSE ((a % 2) * (b % 2)) + 2 * BitAnd(a \div 2, b \div 2, n - 1)

RECURSIVE BitOr(_, _, _)
BitOr(a, b, n) ==
  IF n = 0 THEN 0
  ELSE (IF (a % 2) + (b % 2) > 0 THEN 1 ELSE 0)
       + 2 * BitOr(a \div 2, b \div 2, n - 1)

Word(n) ==
  <<n \div 65536, n % 65536>>

xor32(x, y) ==
  <<BitXor(x[1], y[1], 16), BitXor(x[2], y[2], 16)>>

\* (a * b) mod 2^16 for 16-bit a, b, without leaving 31 bits
MulLow16(a, b) ==
  (((a % 256) * b) + ((((a \div 256) * b) % 256) * 256)) % 65536

\* (a * b) div 2^16 for 16-bit a, b
MulHigh16(a, b) ==
  LET p0 == (a % 256) * b
      p1 == (a \div 256) * b
  IN  (p1 \div 256) + ((((p1 % 256) * 256) + p0) \div 65536)

mul32(x, y) ==
  <<(MulHigh16(x[2], y[2]) + MulLow16(x[1], y[2]) + MulLow16(x[2], y[1])) % 65536,
    MulLow16(x[2], y[2])>>

sum32(x, y) ==
  <<(x[1] + y[1] + ((x[2] + y[2]) \div 65536)) % 65536, (x[2] + y[2]) % 65536>>

\* rotate left by r, 0 < r < 16
rotl32(x, r) ==
  <<((x[1] * Pow2(r)) % 65536) + (x[2] \div Pow2(16 - r)),
    ((x[2] * Pow2(r)) % 65536) + (x[1] \div Pow2(16 - r))>>

\* logical shift right by r, 0 < r <= 16
shr32(x, r) ==
  IF r = 16 THEN <<0, x[1]>>
  ELSE <<x[1] \div Pow2(r), (x[2] \div Pow2(r)) + ((x[1] % Pow2(r)) * Pow2(16 - r))>>

(***************************************************************************)
(* MurmurHash3 (32-bit).  lib/murmurhash3.js is not among the sources; the *)
(* algorithm is the one of spec.md 4.1, with the last avalanche shift      *)
(* being 16 as the reference vectors of src/test/index.js:33-48 require.   *)
(***************************************************************************)
MurmurC1 == <<52382, 11601>>   \* 0xcc9e2d51
MurmurC2 == <<7047, 13715>>    \* 0x1b873593
MurmurN == <<58964, 27492>>    \* 0xe6546b64
MurmurF1 == <<34283, 51819>>   \* 0x85ebca6b
MurmurF2 == <<49842, 44597>>   \* 0xc2b2ae35

ByteAt(data, i) ==
  IF i <= Len(data) THEN data[i] ELSE 0

\* the little-endian word of the (up to) four bytes of data from 1-based index i
LEWord(data, i) ==
  <<(ByteAt(data, i + 3) * 256) + ByteAt(data, i + 2),
    (ByteAt(data, i + 1) * 256) + ByteAt(data, i)>>

MurmurMixK(k) ==
  mul32(rotl32(mul32(k, MurmurC1), 15), MurmurC2)

RECURSIVE MurmurBody(_, _, _)
MurmurBody(hash, data, i) ==
  IF i + 3 > Len(data) THEN hash
  ELSE MurmurBody(
         sum32(mul32(rotl32(xor32(hash, MurmurMixK(LEWord(data, i))), 13), Word(5)),
               MurmurN),
         data, i + 4)

MurmurTail(hash, data) ==
  IF Len(data) % 4 = 0 THEN hash
  ELSE xor32(hash, MurmurMixK(LEWord(data, (Len(data) - (Len(data) % 4)) + 1)))

MurmurFinal(h, len) ==
  LET h1 == xor32(h, Word(len))
      h2 == xor32(h1, shr32(h1, 16))
      h3 == mul32(h2, MurmurF1)
      h4 == xor32(h3, shr32(h3, 13))
      h5 == mul32(h4, MurmurF2)
  IN  xor32(h5, shr32(h5, 16))

MurmurHash3(seed, data) ==
  MurmurFinal(MurmurTail(MurmurBody(seed, data, 1), data), Len(data))

\* the reference vectors of src/test/index.js:33-48
MurmurVectorsOK ==
  /\ MurmurHash3(<<0, 0>>, <<>>) = <<0, 0>>
  /\ MurmurHash3(<<64420, 51093>>, <<>>) = <<27193, 28424>>
  /\ MurmurHash3(<<65535, 65535>>, <<>>) = <<33265, 28473>>
  /\ MurmurHash3(<<0, 0>>, <<0>>) = <<20814, 10423>>
  /\ MurmurHash3(<<64420, 51093>>, <<0>>) = <<59967, 2839>>
  /\ MurmurHash3(<<0, 0>>, <<255>>) = <<64876, 61709>>
  /\ MurmurHash3(<<0, 0>>, <<0, 17>>) = <<5830, 47019>>
  /\ MurmurHash3(<<0, 0>>, <<0, 17, 34>>) = <<36533, 7229>>
  /\ MurmurHash3(<<0, 0>>, <<0, 17, 34, 51>>) = <<46151, 7160>>
  /\ MurmurHash3(<<0, 0>>, <<0, 17, 34, 51, 68>>) = <<57904, 8104>>
  /\ MurmurHash3(<<0, 0>>, <<0, 17, 34, 51, 68, 85>>) = <<64558, 18965>>
  /\ MurmurHash3(<<0, 0>>, <<0, 17, 34, 51, 68, 85, 102>>) = <<45172, 20524>>
  /\ MurmurHash3(<<0, 0>>, <<0, 17, 34, 51, 68, 85, 102, 119>>) = <<32820, 53920>>
  /\ MurmurHash3(<<0, 0>>, <<0, 17, 34, 51, 68, 85, 102, 119, 136>>) = <<46185, 36335>>

(***************************************************************************)
(* Constants of Filter (src/lib/filter.js:261-271).                        *)
(***************************************************************************)
BLOOM_UPDATE_NONE == 0
BLOOM_UPDATE_ALL == 1
BLOOM_UPDATE_P2PUBKEY_ONLY == 2
BLOOM_UPDATE_MASK == 3
MAX_BLOOM_FILTER_SIZE == 36000
MAX_HASH_FUNCS == 50
MIN_HASH_FUNCS == 1
\* Math.log(2) in thousandths
LN2Milli == 693

\* JavaScript's NaN, where the code computes one (0 / 0, h % 0)
NaN == -1

\* ToInt32 of the bitwise operators: NaN becomes 0
ToInt32(v) ==
  IF v = NaN THEN 0 ELSE v

\* !v for a number: 0 and NaN are falsy
IsFalsyNumber(v) ==
  v = 0 \/ v = NaN

FloorDiv(a, b) ==
  IF b > 0 THEN a \div b ELSE (0 - a) \div (0 - b)

(***************************************************************************)
(* vData: a sparse byte array.                                             *)
(***************************************************************************)
EmptyArray ==
  [length |-> 0, bytes |-> <<>>]

\* vData[i] as the bitwise operators see it: a hole or an index past the end
\* reads undefined, which they take as 0
ByteOf(vData, i) ==
  IF i \in DOMAIN vData.bytes THEN vData.bytes[i] ELSE 0

\* vData[i] = b (b # 0): an assignment at or past the end lengthens the array
SetByte(vData, i, b) ==
  [length |-> IF i >= vData.length THEN i + 1 ELSE vData.length,
   bytes |-> [j \in (DOMAIN vData.bytes) \cup {i} |->
                IF j = i THEN b ELSE vData.bytes[j]]]

\* info.vData = []; push(0) filterSize times
ZeroArray(n) ==
  [length |-> n, bytes |-> <<>>]

\* the array of the bytes of a sequence (1-based) as vData (0-based)
ArrayOfBytes(bs) ==
  [length |-> Len(bs),
   bytes |-> [j \in {k \in 0..(Len(bs) - 1) : bs[k + 1] # 0} |-> bs[j + 1]]]

BytesOfArray(vData) ==
  [k \in 1..vData.length |-> ByteOf(vData, k - 1)]

(***************************************************************************)
(* The constructor (src/lib/filter.js:10-26).  arg.vData is an array in    *)
(* every call the model makes, and an array is truthy.                     *)
(***************************************************************************)
Filter(arg) ==
  IF IsFalsyNumber(arg.nHashFuncs)
  THEN [ok |-> FALSE, error |-> "TypeError"]
  ELSE [ok |-> TRUE,
        filter |-> [vData |-> arg.vData,
                    nHashFuncs |-> arg.nHashFuncs,
                    nTweak |-> arg.nTweak,
                    nFlags |-> arg.nFlags]]

(***************************************************************************)
(* Filter.create (src/lib/filter.js:95-131).  The false-positive rate is   *)
(* given in parts per million; -1.0 / LN2SQUARED * Math.log(rate) is       *)
(* tabulated in thousandths of a bit for the rates the model draws.        *)
(***************************************************************************)
BitsPerElementMilli(ratePpm) ==
  CASE ratePpm = 1 -> 28755
    [] ratePpm = 1000 -> 14377
    [] ratePpm = 10000 -> 9585

CreateFilterSize(elements, ratePpm) ==
  LET sizeMilli == elements * BitsPerElementMilli(ratePpm)
      filterSize == FloorDiv(sizeMilli, 8000)
      max == MAX_BLOOM_FILTER_SIZE * 8
  IN  IF filterSize > max THEN max ELSE filterSize

CreateHashFuncs(length, elements) ==
  LET nHashFuncs == IF elements = 0 THEN NaN
                    ELSE FloorDiv(length * 8 * LN2Milli, elements * 1000)
  IN  IF nHashFuncs = NaN THEN NaN
      ELSE IF nHashFuncs > MAX_HASH_FUNCS THEN MAX_HASH_FUNCS
      ELSE IF nHashFuncs < MIN_HASH_FUNCS THEN MIN_HASH_FUNCS
      ELSE nHashFuncs

create(elements, ratePpm, nTweak, nFlags) ==
  LET filterSize == CreateFilterSize(elements, ratePpm)
      vData == ZeroArray(IF filterSize > 0 THEN filterSize ELSE 0)
  IN  Filter([vData |-> vData,
              nHashFuncs |-> CreateHashFuncs(vData.length, elements),
              nTweak |-> nTweak,
              nFlags |-> nFlags])

(***************************************************************************)
(* Serialization (src/lib/filter.js:28-63).                                *)
(***************************************************************************)
\* writeUInt32LE of a number below 2^31
UInt32LE(n) ==
  <<n % 256, (n \div 256) % 256, (n \div 65536) % 256, n \div 16777216>>

\* writeUInt32LE of a word
WordLE(w) ==
  <<w[2] % 256, w[2] \div 256, w[1] % 256, w[1] \div 256>>

\* Buffer.writeUInt8 refuses a value above 255
toBuffer(f) ==
  IF f.vData.length > 255 \/ f.nFlags > 255
  THEN [ok |-> FALSE, error |-> "RangeError"]
  ELSE [ok |-> TRUE,
        buffer |-> <<f.vData.length>> \o BytesOfArray(f.vData)
                   \o UInt32LE(f.nHashFuncs) \o WordLE(f.nTweak) \o <<f.nFlags>>]

\* (mutant) nTweak read before nHashFuncs
transformBufferReaderSwapped(br) ==
  IF Len(br) < 1 \/ Len(br) < br[1] + 10
  THEN [ok |-> FALSE, error |-> "RangeError"]
  ELSE LET length == br[1]
           p == length + 1
       IN  [ok |-> TRUE,
            info |-> [vData |-> ArrayOfBytes(SubSeq(br, 2, length + 1)),
                      nHashFuncs |-> br[p + 5] + (256 * br[p + 6])
                                     + (65536 * br[p + 7]) + (16777216 * br[p + 8]),
                      nTweak |-> <<(br[p + 4] * 256) + br[p + 3],
                                   (br[p + 2] * 256) + br[p + 1]>>,
                      nFlags |-> br[p + 9]]]

\* a read past the end of the buffer throws
transformBufferReader(br) ==
  IF Len(br) < 1 \/ Len(br) < br[1] + 10
  THEN [ok |-> FALSE, error |-> "RangeError"]
  ELSE LET length == br[1]
           p == length + 1
       IN  [ok |-> TRUE,
            info |-> [vData |-> ArrayOfBytes(SubSeq(br, 2, length + 1)),
                      nHashFuncs |-> br[p + 1] + (256 * br[p + 2])
                                     + (65536 * br[p + 3]) + (16777216 * br[p + 4]),
                      nTweak |-> <<(br[p + 8] * 256) + br[p + 7],
                                   (br[p + 6] * 256) + br[p + 5]>>,
                      nFlags |-> br[p + 9]]]

fromBuffer(buffer) ==
  LET r == transformBufferReader(buffer)
  IN  IF r.ok THEN Filter(r.info) ELSE r

(***************************************************************************)
(* hash, insert, contains, clear (src/lib/filter.js:133-162, 249-251).     *)
(***************************************************************************)
\* w mod n for a word w and 0 < n < 2^23, a byte at a time
WordMod(w, n) ==
  LET r3 == (w[1] \div 256) % n
      r2 == ((r3 * 256) + (w[1] % 256)) % n
      r1 == ((r2 * 256) + (w[2] \div 256)) % n
  IN  ((r1 * 256) + (w[2] % 256)) % n

HashSeed(nHashNum, nTweak) ==
  sum32(mul32(Word(nHashNum), <<64420, 51093>>), nTweak)

\* the byte strings of the model: short stand-ins for the 20-byte key hashes,
\* the 32-byte transaction hashes and the script data
PubKeyHash1 == <<4, 148, 63>>
ChunkA == <<48, 69>>
ChunkB == <<4, 109, 17>>
TxHash1 == <<107, 255, 127, 205>>
TxHash2 == <<144, 193, 34>>
PrevOther == <<11, 38, 233>>

Tweaks == {<<0, 0>>, <<32768, 1>>}

RECURSIVE readReverse(_)
readReverse(buf) ==
  IF buf = <<>> THEN <<>> ELSE Append(readReverse(Tail(buf)), Head(buf))

\* the byte strings the model's calls can meet, and their hashes, computed once
ByteStrings ==
  {PubKeyHash1, ChunkA, ChunkB, TxHash1, TxHash2, PrevOther,
   readReverse(TxHash1), readReverse(TxHash2), readReverse(PrevOther)}

MurmurTable ==
  [k \in (0..50) \X Tweaks \X ByteStrings
     |-> MurmurHash3(HashSeed(k[1], k[2]), k[3])] @@ <<>>

\* MurmurHash3(HashSeed(nHashNum, nTweak), data), looked up in MurmurTable where
\* the table holds it
MurmurOf(nHashNum, nTweak, data) ==
  IF <<nHashNum, nTweak, data>> \in DOMAIN MurmurTable
  THEN MurmurTable[<<nHashNum, nTweak, data>>]
  ELSE MurmurHash3(HashSeed(nHashNum, nTweak), data)

hash(f, nHashNum, vDataToHash) ==
  IF f.vData.length = 0 THEN NaN
  ELSE WordMod(MurmurOf(nHashNum, f.nTweak, vDataToHash), f.vData.length * 8)

\* (mutant) this.vData[index >> 3] = (1 << (7 & index)): the byte is overwritten
SetBitAssign(vData, index) ==
  SetByte(vData, ToInt32(index) \div 8, Pow2(BitAnd(7, ToInt32(index), 3)))

\* this.vData[index >> 3] |= (1 << (7 & index))
SetBit(vData, index) ==
  LET position == Pow2(BitAnd(7, ToInt32(index), 3))
      at == ToInt32(index) \div 8
  IN  SetByte(vData, at, BitOr(ByteOf(vData, at), position, 8))

RECURSIVE InsertFrom(_, _, _)
InsertFrom(f, data, i) ==
  IF i >= f.nHashFuncs THEN f
  ELSE InsertFrom([f EXCEPT !.vData = SetBit(f.vData, hash(f, i, data))], data, i + 1)

insert(f, data) ==
  InsertFrom(f, data, 0)

\* this.vData[index >> 3] & (1 << (7 & index))
TestBit(vData, index) ==
  BitAnd(ByteOf(vData, index \div 8), Pow2(BitAnd(7, index, 3)), 8) # 0

contains(f, data) ==
  IF f.vData.length = 0 THEN FALSE
  ELSE \A i \in 0..(f.nHashFuncs - 1) : TestBit(f.vData, hash(f, i, data))

\* (mutant) clear that leaves the bit array as it is
clearNothing(f) ==
  f

clear(f) ==
  [f EXCEPT !.vData = EmptyArray]

(***************************************************************************)
(* The transaction collaborator (bitcore's Transaction, Script, Input):    *)
(* a transaction is [isTransaction, hash, outputs, inputs], hash being the *)
(* bytes _getHash() returns; an output is [script |-> [type, data]]; an    *)
(* input is [prevTxId, chunks], a chunk being [buf |-> bytes] with <<>>    *)
(* for an opcode chunk, which carries no buffer.                           *)
(***************************************************************************)
isPublicKeyHashOut(script) ==
  script.type = "pubkeyhash"

isPublicKeyOut(script) ==
  script.type = "pubkey"

isMultiSigOut(script) ==
  script.type = "multisig"

getPublicKeyHash(script) ==
  script.data

(***************************************************************************)
(* isRelevantAndUpdate (src/lib/filter.js:171-247).                        *)
(***************************************************************************)
\* (mutant) the flags are not looked at: every matched output inserts the hash
UpdateInsertsAlways(f, script) ==
  TRUE

\* lines 206-212: whether a matched output makes the call insert the hash
UpdateInserts(f, script) ==
  IF BitAnd(f.nFlags, BLOOM_UPDATE_MASK, 8) = BLOOM_UPDATE_ALL
  THEN TRUE
  ELSE IF BitAnd(f.nFlags, BLOOM_UPDATE_MASK, 8) = BLOOM_UPDATE_P2PUBKEY_ONLY
       THEN isPublicKeyOut(script) \/ isMultiSigOut(script)
       ELSE FALSE

UpdateOnMatch(f, script, txid) ==
  IF UpdateInserts(f, script) THEN insert(f, txid) ELSE f

\* lines 189-215, from output i (1-based) on; `inserted` tells whether
\* this.insert(hash) was called
RECURSIVE OutputLoop(_, _, _, _, _, _)
OutputLoop(f, found, inserted, outputs, txid, i) ==
  IF i > Len(outputs) THEN [filter |-> f, found |-> found, inserted |-> inserted]
  ELSE LET script == outputs[i].script
       IN  IF isPublicKeyHashOut(script) /\ contains(f, getPublicKeyHash(script))
           THEN OutputLoop(UpdateOnMatch(f, script, txid), TRUE,
                           inserted \/ UpdateInserts(f, script), outputs, txid, i + 1)
           ELSE OutputLoop(f, found, inserted, outputs, txid, i + 1)

\* lines 233-241 for input i (0-based), from chunk counter s (0-based) on:
\* the loop counts s, and reads chunks[i]
RECURSIVE ChunkLoop(_, _, _, _)
ChunkLoop(f, chunks, i, s) ==
  IF s >= Len(chunks) THEN "none"
  ELSE IF i >= Len(chunks) THEN "TypeError"
  ELSE LET buffer == chunks[i + 1].buf
       IN  IF Len(buffer) > 0 /\ contains(f, buffer)
           THEN "match"
           ELSE ChunkLoop(f, chunks, i, s + 1)

\* lines 221-245, from input i (0-based) on
RECURSIVE InputLoop(_, _, _)
InputLoop(f, inputs, i) ==
  IF i >= Len(inputs) THEN [result |-> "false", visited |-> i]
  ELSE LET prevTxId == inputs[i + 1].prevTxId
           reversedTxPrevId == readReverse(prevTxId)
       IN  IF contains(f, prevTxId) \/ contains(f, reversedTxPrevId)
           THEN [result |-> "true", visited |-> i + 1]
           ELSE LET c == ChunkLoop(f, inputs[i + 1].chunks, i, 0)
                IN  IF c = "match" THEN [result |-> "true", visited |-> i + 1]
                    ELSE IF c = "TypeError"
                         THEN [result |-> "TypeError", visited |-> i + 1]
                         ELSE InputLoop(f, inputs, i + 1)

\* (mutant) only the byte-reversed hash is looked up
HashFoundOneOrder(f, transaction) ==
  contains(f, readReverse(transaction.hash))

\* lines 182-187: this.contains(hash) || this.contains(reversed)
HashFound(f, transaction) ==
  contains(f, readReverse(transaction.hash)) \/ contains(f, transaction.hash)

\* the whole call: its result, the filter it leaves, the number of inputs it
\* looked at and whether it inserted the transaction's hash
isRelevantAndUpdate(f, transaction) ==
  IF ~transaction.isTransaction
  THEN [result |-> "TypeError", filter |-> f, visited |-> 0, inserted |-> FALSE]
  ELSE IF f.vData.length = 0
  THEN [result |-> "false", filter |-> f, visited |-> 0, inserted |-> FALSE]
  ELSE LET txid == readReverse(transaction.hash)
           found == HashFound(f, transaction)
           out == OutputLoop(f, found, FALSE, transaction.outputs, txid, 1)
       IN  IF out.found
           THEN [result |-> "true", filter |-> out.filter, visited |-> 0,
                 inserted |-> out.inserted]
           ELSE LET in == InputLoop(out.filter, transaction.inputs, 0)
                IN  [result |-> in.result, filter |-> out.filter,
                     visited |-> in.visited, inserted |-> out.inserted]

(***************************************************************************)
(* The inputs the model draws.                                             *)
(***************************************************************************)
MaxInputs == 3

\* what the caller inserts and asks for
DataSet ==
  {PubKeyHash1, ChunkB, TxHash1, readReverse(TxHash1)}

\* the calls of create: <<elements, rate in ppm, nTweak, nFlags>>.  The sizes
\* they give: no bytes (-1 elements), a TypeError (0), 3 bytes and 5 hash
\* functions (3, 0.01: src/test/index.js:78), 256 bytes and 9 (143, 0.001),
\* 36001 bytes and 19 (10016, 0.000001)
CreateArgs ==
  {<<-1, 10000, <<0, 0>>, BLOOM_UPDATE_NONE>>,
   <<0, 10000, <<0, 0>>, BLOOM_UPDATE_NONE>>,
   <<3, 10000, <<0, 0>>, BLOOM_UPDATE_NONE>>,
   <<3, 10000, <<0, 0>>, BLOOM_UPDATE_ALL>>,
   <<3, 10000, <<32768, 1>>, BLOOM_UPDATE_ALL>>,
   <<3, 10000, <<0, 0>>, BLOOM_UPDATE_P2PUBKEY_ONLY>>,
   <<143, 1000, <<0, 0>>, BLOOM_UPDATE_ALL>>,
   <<10016, 1, <<0, 0>>, BLOOM_UPDATE_ALL>>}

\* wire bytes handed to fromBuffer: the filter of src/test/index.js:257, an empty
\* filter with 51 hash functions, one with 0 hash functions, a truncated buffer
WireBuffers ==
  {<<3, 97, 78, 155, 5, 0, 0, 0, 0, 0, 0, 0, 1>>,
   <<0, 51, 0, 0, 0, 0, 0, 0, 0, 0>>,
   <<0, 0, 0, 0, 0, 0, 0, 0, 0, 0>>,
   <<3, 97, 78>>}

\* objects handed to fromObject
Objects ==
  {[vData |-> ZeroArray(2), nHashFuncs |-> 2, nTweak |-> <<0, 0>>, nFlags |-> 0],
   [vData |-> ZeroArray(2), nHashFuncs |-> 0, nTweak |-> <<0, 0>>, nFlags |-> 0],
   [vData |-> ZeroArray(2), nHashFuncs |-> 2, nTweak |-> <<0, 0>>,
    nFlags |-> BLOOM_UPDATE_MASK],
   [vData |-> ZeroArray(2), nHashFuncs |-> 2, nTweak |-> <<0, 0>>,
    nFlags |-> 4 + BLOOM_UPDATE_ALL]}

Scripts ==
  {<<>>,
   <<[buf |-> ChunkA]>>,
   <<[buf |-> ChunkA], [buf |-> ChunkB]>>}

\* inputs spending some other transaction, and one spending transaction 1
Inputs ==
  [prevTxId : {PrevOther}, chunks : Scripts]
  \cup {[prevTxId |-> readReverse(TxHash1), chunks |-> <<[buf |-> ChunkA]>>]}

PubKeyOutput ==
  [script |-> [type |-> "pubkey", data |-> ChunkB]]

PubKeyHashOutput ==
  [script |-> [type |-> "pubkeyhash", data |-> PubKeyHash1]]

OutputLists ==
  {<<PubKeyOutput>>, <<PubKeyHashOutput>>, <<PubKeyOutput, PubKeyHashOutput>>}

SeqsUpTo(S, n) ==
  UNION {[1..k -> S] : k \in 0..n}

\* transaction 1 with any of the output lists and at most one input; transaction
\* 2, paying to a bare public key, with up to MaxInputs inputs; and an object
\* that is no Transaction
Transactions ==
  [isTransaction : {TRUE}, hash : {TxHash1}, outputs : OutputLists,
   inputs : SeqsUpTo(Inputs, 1)]
  \cup [isTransaction : {TRUE}, hash : {TxHash2}, outputs : {<<PubKeyOutput>>},
        inputs : SeqsUpTo(Inputs, MaxInputs)]
  \cup {[isTransaction |-> FALSE, hash |-> <<>>, outputs |-> <<>>, inputs |-> <<>>]}

(***************************************************************************)
(* The state.  filter is the Filter object the caller holds.  The other    *)
(* variables record the call that has just returned (op is "idle" between  *)
(* calls): its name, argument and outcome, the filter as it was before it, *)
(* the bytes toBuffer returned and the number of inputs                    *)
(* isRelevantAndUpdate looked at.  selfInserted is the set of transaction  *)
(* ids isRelevantAndUpdate has inserted into this object since it was      *)
(* constructed or cleared.                                                 *)
(***************************************************************************)
VARIABLES filter, before, op, arg, result, buffer, visited, selfInserted

vars == <<filter, before, op, arg, result, buffer, visited, selfInserted>>

\* a constructing call: a new object on success, the old one kept on a throw
Constructed(name, a, c) ==
  /\ op' = name
  /\ arg' = a
  /\ before' = filter
  /\ result' = IF c.ok THEN "ok" ELSE c.error
  /\ filter' = IF c.ok THEN c.filter ELSE filter
  /\ buffer' = <<>>
  /\ visited' = 0
  /\ selfInserted' = IF c.ok THEN {} ELSE selfInserted

Init ==
  \E a \in CreateArgs :
    /\ create(a[1], a[2], a[3], a[4]).ok
    /\ filter = create(a[1], a[2], a[3], a[4]).filter
    /\ before = filter
    /\ op = "create"
    /\ arg = a
    /\ result = "ok"
    /\ buffer = <<>>
    /\ visited = 0
    /\ selfInserted = {}

Create ==
  /\ op = "idle"
  /\ \E a \in CreateArgs :
       Constructed("create", a, create(a[1], a[2], a[3], a[4]))

FromBuffer ==
  /\ op = "idle"
  /\ \E b \in WireBuffers :
       Constructed("fromBuffer", b, fromBuffer(b))

\* the bytes toBuffer just returned, decoded again (a FilterLoad payload received)
FromOwnBuffer ==
  /\ op = "toBuffer"
  /\ result = "ok"
  /\ Constructed("fromBuffer", buffer, fromBuffer(buffer))

FromObject ==
  /\ op = "idle"
  /\ \E data \in Objects :
       Constructed("fromObject", data, Filter(data))

Insert ==
  /\ op = "idle"
  /\ \E data \in DataSet :
       /\ op' = "insert"
       /\ arg' = data
       /\ before' = filter
       /\ filter' = insert(filter, data)
       /\ result' = "ok"
       /\ buffer' = <<>>
       /\ visited' = 0
       /\ UNCHANGED selfInserted

Contains ==
  /\ op = "idle"
  /\ \E data \in DataSet :
       /\ op' = "contains"
       /\ arg' = data
       /\ before' = filter
       /\ result' = IF contains(filter, data) THEN "true" ELSE "false"
       /\ buffer' = <<>>
       /\ visited' = 0
       /\ UNCHANGED <<filter, selfInserted>>

Clear ==
  /\ op = "idle"
  /\ op' = "clear"
  /\ arg' = <<>>
  /\ before' = filter
  /\ filter' = clear(filter)
  /\ result' = "ok"
  /\ buffer' = <<>>
  /\ visited' = 0
  /\ selfInserted' = {}

IsRelevantAndUpdate ==
  /\ op = "idle"
  /\ \E transaction \in Transactions :
       LET r == isRelevantAndUpdate(filter, transaction)
       IN  /\ op' = "isRelevantAndUpdate"
           /\ arg' = transaction
           /\ before' = filter
           /\ filter' = r.filter
           /\ result' = r.result
           /\ buffer' = <<>>
           /\ visited' = r.visited
           /\ selfInserted' = IF r.inserted
                              THEN selfInserted \cup {readReverse(transaction.hash)}
                              ELSE selfInserted

ToBuffer ==
  /\ op = "idle"
  /\ LET r == toBuffer(filter)
     IN  /\ op' = "toBuffer"
         /\ arg' = <<>>
         /\ before' = filter
         /\ result' = IF r.ok THEN "ok" ELSE r.error
         /\ buffer' = IF r.ok THEN r.buffer ELSE <<>>
         /\ visited' = 0
         /\ UNCHANGED <<filter, selfInserted>>

\* the call has returned and the caller has looked at its outcome
Return ==
  /\ op # "idle"
  /\ op' = "idle"
  /\ arg' = <<>>
  /\ before' = filter
  /\ result' = "ok"
  /\ buffer' = <<>>
  /\ visited' = 0
  /\ UNCHANGED <<filter, selfInserted>>

Next ==
  \/ Create
  \/ FromBuffer
  \/ FromOwnBuffer
  \/ FromObject
  \/ Insert
  \/ Contains
  \/ Clear
  \/ IsRelevantAndUpdate
  \/ ToBuffer
  \/ Return

Spec == Init /\ [][Next]_vars

(***************************************************************************)
(* Predicates the properties share.                                        *)
(***************************************************************************)
\* the last call was isRelevantAndUpdate on a Transaction
RelevanceCall ==
  op = "isRelevantAndUpdate" /\ arg.isTransaction

\* f contains the embedded hash of some pay-to-public-key-hash output
OutputFound(f, transaction) ==
  \E i \in 1..Len(transaction.outputs) :
    /\ isPublicKeyHashOut(transaction.outputs[i].script)
    /\ contains(f, getPublicKeyHash(transaction.outputs[i].script))

\* f contains the non-empty bytes of some chunk of some input's script
ChunkFound(f, transaction) ==
  \E j \in 1..Len(transaction.inputs) :
    \E s \in 1..Len(transaction.inputs[j].chunks) :
      /\ Len(transaction.inputs[j].chunks[s].buf) > 0
      /\ contains(f, transaction.inputs[j].chunks[s].buf)

\* every bit set in a is set in b
BitsKept(a, b) ==
  \A i \in DOMAIN a.bytes : BitAnd(a.bytes[i], ByteOf(b, i), 8) = a.bytes[i]

\* decoding the bytes f encodes to gives f back
RoundTrips(f) ==
  /\ toBuffer(f).ok
  /\ fromBuffer(toBuffer(f).buffer).ok
  /\ fromBuffer(toBuffer(f).buffer).filter = f

(***************************************************************************)
(* C1: no false negatives.  On a filter whose bit array is not empty,      *)
(* contains(x) is true right after insert(x); and insert and               *)
(* isRelevantAndUpdate keep every set bit set, so that whatever the filter *)
(* contained before the call it contains after it.                         *)
(***************************************************************************)
C1_NoFalseNegatives ==
  /\ (op = "insert" /\ before.vData.length > 0) => contains(filter, arg)
  /\ op \in {"insert", "isRelevantAndUpdate", "contains", "toBuffer"} =>
       /\ BitsKept(before.vData, filter.vData)
       /\ filter.vData.length >= before.vData.length
       /\ \A x \in ByteStrings : contains(before, x) => contains(filter, x)

\* an insert into a filter that already holds another element, which it keeps
C1_Witness ==
  /\ op = "insert"
  /\ before.vData.length > 0
  /\ ~contains(before, arg)
  /\ \E x \in DataSet \ {arg} : contains(before, x) /\ contains(filter, x)

(***************************************************************************)
(* C2: insert on a filter whose bit array is empty is a no-op: the bit     *)
(* array is still empty after it and contains(y) is false for every y.     *)
(* The code does not hold to this: h % 0 is NaN, and                       *)
(* this.vData[NaN >> 3] |= 1 << (7 & NaN) stores 1 at index 0.             *)
(***************************************************************************)
C2_InsertOnEmptyIsNoOp ==
  (op = "insert" /\ before.vData.length = 0) =>
    /\ filter.vData.length = 0
    /\ \A y \in ByteStrings : ~contains(filter, y)

(***************************************************************************)
(* C3: the empty-filter law.  Right after clear() contains(x) is false for *)
(* every x; and isRelevantAndUpdate on a filter whose bit array is empty   *)
(* returns false for every transaction and changes no field of the filter. *)
(***************************************************************************)
C3_EmptyFilterLaw ==
  /\ op = "clear" => \A x \in ByteStrings : ~contains(filter, x)
  /\ (RelevanceCall /\ before.vData.length = 0) =>
       /\ result = "false"
       /\ filter = before

\* a filter that held an element and was cleared (an empty bit array with 5 hash
\* functions comes from clear alone) is asked about a transaction paying to
\* that element
C3_Witness ==
  /\ RelevanceCall
  /\ before.vData.length = 0
  /\ before.nHashFuncs = 5
  /\ Len(arg.outputs) > 0
  /\ Len(arg.inputs) > 0
  /\ result = "false"

(***************************************************************************)
(* C4: serialization round trip.  As claimed: for every filter whose bit   *)
(* array has at most MAX_BLOOM_FILTER_SIZE bytes, fromBuffer(toBuffer())   *)
(* succeeds and gives the same vData, nHashFuncs, nTweak and nFlags.       *)
(***************************************************************************)
C4_RoundTripUpToCap ==
  filter.vData.length <= MAX_BLOOM_FILTER_SIZE => RoundTrips(filter)

(***************************************************************************)
(* C4, amended: the round trip holds for every filter whose bit array has  *)
(* at most 255 bytes, the most the one-byte length prefix can carry; and   *)
(* decoding the bytes toBuffer has just returned gives the filter back.    *)
(***************************************************************************)
C4_RoundTripUpTo255 ==
  /\ filter.vData.length <= 255 => RoundTrips(filter)
  /\ (op = "fromBuffer" /\ before.vData.length <= 255
        /\ toBuffer(before).ok /\ arg = toBuffer(before).buffer) =>
       (result = "ok" /\ filter = before)

\* a filter with bits set and a tweak above 2^31 has been encoded and decoded
C4_Witness ==
  /\ op = "fromBuffer"
  /\ result = "ok"
  /\ toBuffer(before).ok
  /\ arg = toBuffer(before).buffer
  /\ filter = before
  /\ DOMAIN filter.vData.bytes # {}
  /\ filter.nTweak = <<32768, 1>>

(***************************************************************************)
(* C5: the size cap.  The bit array of a filter create returns has at most *)
(* MAX_BLOOM_FILTER_SIZE bytes, and no later call makes it longer than     *)
(* that.  The code compares the byte length with MAX_BLOOM_FILTER_SIZE * 8 *)
(* and so allows up to 288000 bytes.                                       *)
(***************************************************************************)
C5_SizeCap ==
  filter.vData.length <= MAX_BLOOM_FILTER_SIZE

(***************************************************************************)
(* C6: every Filter object produced has nHashFuncs in                      *)
(* MIN_HASH_FUNCS..MAX_HASH_FUNCS, and keeps it.  The constructor only     *)
(* refuses 0, so fromBuffer and fromObject accept 51 and more.             *)
(***************************************************************************)
C6_HashFuncsBound ==
  filter.nHashFuncs \in MIN_HASH_FUNCS..MAX_HASH_FUNCS

(***************************************************************************)
(* C7: create fails, and produces no Filter, for every elementCount <= 0.  *)
(* The code throws for 0 alone (nHashFuncs is NaN); a negative count gives *)
(* an empty bit array and 1 hash function.                                 *)
(***************************************************************************)
C7_CreateRejectsNonPositive ==
  (op = "create" /\ arg[1] <= 0) => result # "ok"

(***************************************************************************)
(* C8: input-script matching.  On a filter whose bit array is not empty,   *)
(* when neither the transaction's hash nor any output matches, the call    *)
(* raises no error, and it returns true if the filter contains the         *)
(* non-empty bytes of some chunk of some input's script.  The code reads   *)
(* chunks[i], i being the input's index, for every chunk of input i.       *)
(***************************************************************************)
C8_InputScriptMatching ==
  (/\ RelevanceCall
   /\ before.vData.length > 0
   /\ ~HashFound(before, arg)
   /\ ~OutputFound(before, arg)) =>
    /\ result # "TypeError"
    /\ ChunkFound(before, arg) => result = "true"

(***************************************************************************)
(* C9: the self-maintaining filter.  Once isRelevantAndUpdate has inserted *)
(* a transaction's hash for a matched pay-to-public-key-hash output, and   *)
(* until the filter is cleared, isRelevantAndUpdate returns true for every *)
(* transaction with an input whose prevTxId is that hash.  The code fails  *)
(* this where C8 fails: an earlier input of the spending transaction       *)
(* raises the TypeError of chunks[i].                                      *)
(***************************************************************************)
C9_SelfMaintaining ==
  (/\ RelevanceCall
   /\ \E j \in 1..Len(arg.inputs) : arg.inputs[j].prevTxId \in selfInserted) =>
    result = "true"

(***************************************************************************)
(* C10: hash and output matching.  On a filter whose bit array is not      *)
(* empty, isRelevantAndUpdate returns true when the filter contains the    *)
(* transaction's hash in either byte order, and when it contains the       *)
(* embedded hash of some pay-to-public-key-hash output; and it then looks  *)
(* at no input.                                                            *)
(***************************************************************************)
C10_HashAndOutputMatching ==
  (/\ RelevanceCall
   /\ before.vData.length > 0
   /\ \/ contains(before, arg.hash)
      \/ contains(before, readReverse(arg.hash))
      \/ OutputFound(before, arg)) =>
    /\ result = "true"
    /\ visited = 0

\* the filter holds the hash as _getHash() gives it and not its reversal, no
\* output matches, and the transaction has an input
C10_Witness ==
  /\ RelevanceCall
  /\ before.vData.length > 0
  /\ contains(before, arg.hash)
  /\ ~contains(before, readReverse(arg.hash))
  /\ ~OutputFound(before, arg)
  /\ Len(arg.inputs) > 0
  /\ result = "true"

(***************************************************************************)
(* C11: insert is idempotent.  For every filter, one whose bit array is    *)
(* empty included, a second insert(x) right after insert(x) leaves the bit *)
(* array as the first left it, and changes the answer of contains(y) for   *)
(* no y.  The code does not hold to this on an empty bit array: the first  *)
(* insert stores through the index NaN and makes the array one byte long,  *)
(* and the second then sets the bits of hash(i, x) modulo 8.               *)
(***************************************************************************)
C11_InsertIdempotent ==
  op = "insert" =>
    /\ insert(filter, arg).vData = filter.vData
    /\ \A y \in ByteStrings :
         contains(insert(filter, arg), y) = contains(filter, y)

\* the same on the filters whose bit array was not empty before the insert
C11_IdempotentNonEmpty ==
  (op = "insert" /\ before.vData.length > 0) =>
    /\ insert(filter, arg).vData = filter.vData
    /\ \A y \in ByteStrings :
         contains(insert(filter, arg), y) = contains(filter, y)

\* the update policy as stated: some output of the transaction is a
\* pay-to-public-key-hash script whose hash f contains, and the flags are ALL,
\* or they are P2PUBKEY_ONLY and that script is a public-key or multisig output
PolicyInserts(f, transaction) ==
  \E i \in 1..Len(transaction.outputs) :
    LET script == transaction.outputs[i].script
    IN  /\ isPublicKeyHashOut(script)
        /\ contains(f, getPublicKeyHash(script))
        /\ \/ f.nFlags % 4 = BLOOM_UPDATE_ALL
           \/ /\ f.nFlags % 4 = BLOOM_UPDATE_P2PUBKEY_ONLY
              /\ (isPublicKeyOut(script) \/ isMultiSigOut(script))

C12_NoUpdateReached ==
  /\ RelevanceCall
  /\ OutputFound(before, arg)
  /\ ~HashFound(before, arg)
  /\ before.nFlags = BLOOM_UPDATE_MASK
  /\ result = "true"

====
